---- MODULE Spec2Model ----
(***************************************************************************)
(* A model of RANGAN.py: the run of GAN.train from the corpus scan         *)
(* (get_notes) through prepare_sequences, the adversarial training loop,   *)
(* generate / create_midi and plot_loss.                                   *)
(*                                                                         *)
(* Tokens are Python strings, modelled as sequences of one-character       *)
(* strings so that sorting, '.' in s, isdigit, split and s[0] can be       *)
(* computed as Python computes them.  Floating-point values are modelled   *)
(* as exact rationals <<numerator, denominator>> with denominator > 0.     *)
(* Network weights are abstracted to version counters, losses to the       *)
(* epoch at which they were recorded.                                      *)
(***************************************************************************)
EXTENDS Integers, Sequences, FiniteSets, TLC

\* ------------------------------------------------------------------ bounds
MaxNotes == 3        \* the corpus holds at most this many tokens
MaxFileElems == 2    \* elements one file contributes to notes_to_parse
MaxLength == 2       \* runGan(l, ...) sets the global length to l in 1..MaxLength
MaxEpochs == 2       \* train(epochs, ...) with epochs in 0..MaxEpochs

\* ------------------------------------------------------- program constants
HalfVocab == 242     \* the literal 242 of generate

BatchSizes == {1, 2}
SampleIntervals == {1, 50}

\* ------------------------------------------------------------ Python str
Digits == <<"0", "1", "2", "3", "4", "5", "6", "7", "8", "9">>

IsDigitChar(c) == \E i \in 1..10 : Digits[i] = c

DigitVal(c) == (CHOOSE i \in 1..10 : Digits[i] = c) - 1

\* the code point of a character, as far as the alphabet of tokens goes
Ord(c) ==
    IF c = "#" THEN 35
    ELSE IF c = "-" THEN 45
    ELSE IF c = "." THEN 46
    ELSE IF IsDigitChar(c) THEN 48 + DigitVal(c)
    ELSE IF c = "A" THEN 65
    ELSE IF c = "B" THEN 66
    ELSE IF c = "C" THEN 67
    ELSE IF c = "D" THEN 68
    ELSE IF c = "E" THEN 69
    ELSE IF c = "F" THEN 70
    ELSE 71

RECURSIVE StrLess(_, _)
\* a < b for Python strings: lexicographic by code point
StrLess(a, b) ==
    IF b = <<>> THEN FALSE
    ELSE IF a = <<>> THEN TRUE
    ELSE IF Ord(Head(a)) # Ord(Head(b)) THEN Ord(Head(a)) < Ord(Head(b))
    ELSE StrLess(Tail(a), Tail(b))

\* s.isdigit(): non-empty and every character a digit
IsDigit(s) == s # <<>> /\ \A i \in 1..Len(s) : IsDigitChar(s[i])

\* c in s
Contains(s, c) == \E i \in 1..Len(s) : s[i] = c

RECURSIVE SplitFrom(_, _, _)
SplitFrom(s, sep, cur) ==
    IF s = <<>> THEN <<cur>>
    ELSE IF Head(s) = sep THEN <<cur>> \o SplitFrom(Tail(s), sep, <<>>)
    ELSE SplitFrom(Tail(s), sep, Append(cur, Head(s)))

\* s.split(sep)
Split(s, sep) == SplitFrom(s, sep, <<>>)

RECURSIVE Join(_, _)
\* sep.join(parts)
Join(sep, parts) ==
    IF parts = <<>> THEN <<>>
    ELSE IF Len(parts) = 1 THEN parts[1]
    ELSE parts[1] \o <<sep>> \o Join(sep, Tail(parts))

RECURSIVE StrOfInt(_)
\* str(n) for a natural number n
StrOfInt(n) ==
    IF n < 10 THEN <<Digits[n + 1]>>
    ELSE StrOfInt(n \div 10) \o <<Digits[(n % 10) + 1]>>

RECURSIVE DigitsValue(_, _)
DigitsValue(s, acc) ==
    IF s = <<>> THEN acc ELSE DigitsValue(Tail(s), 10 * acc + DigitVal(Head(s)))

\* int(s) of a string; -1 stands for the ValueError of a non-numeric string
IntOfStr(s) == IF IsDigit(s) THEN DigitsValue(s, 0) ELSE -1

\* ------------------------------------------------------------- rationals
RatNorm(r) == IF r[2] < 0 THEN <<-r[1], -r[2]>> ELSE r
RatAdd(a, b) == <<a[1] * b[2] + b[1] * a[2], a[2] * b[2]>>
RatSub(a, b) == <<a[1] * b[2] - b[1] * a[2], a[2] * b[2]>>
RatMul(a, b) == <<a[1] * b[1], a[2] * b[2]>>
RatDiv(a, b) == RatNorm(<<a[1] * b[2], a[2] * b[1]>>)
RatLeq(a, b) == a[1] * b[2] <= b[1] * a[2]
RatLess(a, b) == a[1] * b[2] < b[1] * a[2]
RatEq(a, b) == a[1] * b[2] = b[1] * a[2]
RatOfInt(k) == <<k, 1>>

\* int(x) of a float: truncation toward zero
IntOfFloat(r) ==
    IF r[1] >= 0 THEN r[1] \div r[2] ELSE -((-r[1]) \div r[2])

\* ----------------------------------------------------------- sequences
Range(s) == {s[i] : i \in 1..Len(s)}

SeqsUpTo(S, n) == UNION {[1..k -> S] : k \in 0..n}

RECURSIVE SortedSeq(_)
\* sorted(S) for a set S of strings
SortedSeq(S) ==
    IF S = {} THEN <<>>
    ELSE LET m == CHOOSE x \in S : \A y \in S \ {x} : StrLess(x, y)
         IN <<m>> \o SortedSeq(S \ {m})

RECURSIVE SeqMax(_)
SeqMax(s) ==
    IF Len(s) = 1 THEN s[1]
    ELSE LET m == SeqMax(Tail(s)) IN IF s[1] > m THEN s[1] ELSE m

\* ------------------------------------------------------------ the corpus
\* a music21 stream element as get_notes sees it
NoteElem(p) == [kind |-> "Note", pitch |-> p, normalOrder |-> <<>>]
ChordElem(no) == [kind |-> "Chord", pitch |-> <<>>, normalOrder |-> no]
RestElem == [kind |-> "Rest", pitch |-> <<>>, normalOrder |-> <<>>]

Elements == {NoteElem(<<"C", "#", "4">>), ChordElem(<<4, 7>>), ChordElem(<<11>>), RestElem}

\* the token get_notes appends for one element (<<>> wrapped: a Rest appends nothing)
TokensOf(element) ==
    IF element.kind = "Note" THEN <<element.pitch>>
    ELSE IF element.kind = "Chord"
        THEN <<Join(".", [i \in 1..Len(element.normalOrder) |-> StrOfInt(element.normalOrder[i])])>>
    ELSE <<>>

RECURSIVE ParseElements(_)
\* the inner loop of get_notes over notes_to_parse
ParseElements(elems) ==
    IF elems = <<>> THEN <<>> ELSE TokensOf(Head(elems)) \o ParseElements(Tail(elems))

\* ---------------------------------------------------- prepare_sequences
\* pitchnames = sorted(set(item for item in notes))
PitchNames(notes) == SortedSeq(Range(notes))

\* mutant: enumerate(pitchnames, 1)
NoteToIntFromOne(notes) ==
    LET pitchnames == SortedSeq(Range(notes))
    IN [t \in Range(pitchnames) |-> CHOOSE i \in 1..Len(pitchnames) : pitchnames[i] = t]

\* note_to_int = dict((note, number) for number, note in enumerate(pitchnames))
NoteToInt(notes) ==
    LET pitchnames == PitchNames(notes)
    IN [t \in Range(pitchnames) |-> (CHOOSE i \in 1..Len(pitchnames) : pitchnames[i] = t) - 1]

\* int_to_note = dict((number, note) for number, note in enumerate(pitchnames))
IntToNote(notes) ==
    LET pitchnames == PitchNames(notes)
    IN [k \in 0..(Len(pitchnames) - 1) |-> pitchnames[k + 1]]

\* range(0, len(notes) - sequence_length, 1), as a count
NPatterns(notes, sequence_length) ==
    IF Len(notes) - sequence_length > 0 THEN Len(notes) - sequence_length ELSE 0

\* mutant: sequence_in = notes[i + 1:i + 1 + sequence_length]
WindowsInSkewed(notes, sequence_length) ==
    LET pitchnames == SortedSeq(Range(notes))
        number(t) == (CHOOSE i \in 1..Len(pitchnames) : pitchnames[i] = t) - 1
        n == IF Len(notes) - sequence_length > 0 THEN Len(notes) - sequence_length ELSE 0
    IN [w \in 1..n |-> [j \in 1..sequence_length |-> number(notes[w + j])]]

\* network_input before the normalisation: the list of index windows
WindowsIn(notes, sequence_length) ==
    LET note_to_int == NoteToInt(notes)
    IN [w \in 1..NPatterns(notes, sequence_length) |->
           [j \in 1..sequence_length |-> note_to_int[notes[(w - 1) + j]]]]

\* network_output before to_categorical: the index of the token after each window
WindowsOut(notes, sequence_length) ==
    LET note_to_int == NoteToInt(notes)
    IN [w \in 1..NPatterns(notes, sequence_length) |->
           note_to_int[notes[(w - 1) + sequence_length + 1]]]

\* mutant: x / (float(n_vocab) / 2), the centring forgotten
NormalizeUncentred(x, nv) == RatDiv(RatOfInt(x), RatDiv(RatOfInt(nv), RatOfInt(2)))

\* (x - float(n_vocab) / 2) / (float(n_vocab) / 2)
Normalize(x, nv) ==
    RatDiv(RatSub(RatOfInt(x), RatDiv(RatOfInt(nv), RatOfInt(2))),
           RatDiv(RatOfInt(nv), RatOfInt(2)))

NormalizeAll(windows, nv) ==
    [w \in 1..Len(windows) |-> [j \in 1..Len(windows[w]) |-> Normalize(windows[w][j], nv)]]

\* np_utils.to_categorical(y): one-hot rows of width max(y) + 1
ToCategorical(y) ==
    [i \in 1..Len(y) |-> [c \in 0..SeqMax(y) |-> IF c = y[i] THEN 1 ELSE 0]]

\* ------------------------------------------------------------- generate
\* int(x * 242 + 242)
DecodeIndex(x) == IntOfFloat(RatAdd(RatMul(x, RatOfInt(HalfVocab)), RatOfInt(HalfVocab)))

\* values the tanh output layer of the generator can take
GenValues == {<<-1, 1>>, <<-483, 484>>, <<-241, 242>>, <<1, 1>>}

\* ---------------------------------------------------------- create_midi
NewNote(p, off) == [kind |-> "Note", pitch |-> p, notes |-> <<>>, offset |-> off]
NewChord(ns, off) == [kind |-> "Chord", pitch |-> <<>>, notes |-> ns, offset |-> off]

\* pattern = item[0]
PatternOf(item) == <<item[1]>>

\* does the body of the loop of create_midi raise for this item
ItemRaises(item) ==
    LET pattern == PatternOf(item)
    IN (Contains(pattern, ".") \/ IsDigit(pattern))
       /\ \E c \in Range(Split(pattern, ".")) : IntOfStr(c) = -1

\* the element create_midi appends for one item; off counts offset increments
ElementOf(item, off) ==
    LET pattern == PatternOf(item)
    IN IF Contains(pattern, ".") \/ IsDigit(pattern)
       THEN LET notes_in_chord == Split(pattern, ".")
            IN NewChord([i \in 1..Len(notes_in_chord) |-> IntOfStr(notes_in_chord[i])], off)
       ELSE NewNote(pattern, off)

\* output_notes of create_midi
CreateMidi(prediction_output) ==
    [i \in 1..Len(prediction_output) |-> ElementOf(prediction_output[i], i - 1)]

\* ---------------------------------------------------------------- state
VARIABLES
    length,           \* the global length (window size of prepare_sequences)
    seq_length,       \* self.seq_length = rows
    epochs,           \* arguments of train
    batch_size,
    sample_interval,
    pc,               \* where the run of train stands
    failure,          \* the unhandled exception that ended the run, or "none"
    raised,           \* history: the places of get_notes that have raised
    calls,            \* history: how often each stage has been entered
    notes,            \* the token list of get_notes
    n_vocab,
    note_to_int,
    windows_in,       \* network_input of prepare_sequences before the normalisation
    windows_out,      \* network_output of prepare_sequences before to_categorical
    X_train,
    y_train,
    epoch,            \* iterations of the training loop completed
    idx,              \* the batch of window indices behind real_seqs
    gen_seqs,         \* the generated batch: the weights it was predicted under
    dW,               \* version of the discriminator's weights
    gW,               \* version of the generator's weights
    updates,          \* history: the train_on_batch calls made, in order
    disc_loss,
    gen_loss,
    int_to_note,
    pred_notes,
    output_notes,     \* the stream create_midi writes
    midi_written,
    plot_written

vars == <<length, seq_length, epochs, batch_size, sample_interval, pc, failure, raised,
          calls, notes, n_vocab, note_to_int, windows_in, windows_out, X_train, y_train,
          epoch, idx, gen_seqs, dW, gW, updates, disc_loss, gen_loss, int_to_note,
          pred_notes, output_notes, midi_written, plot_written>>

params == <<length, seq_length, epochs, batch_size, sample_interval>>
corpusVars == <<notes, raised>>
prepVars == <<n_vocab, note_to_int, windows_in, windows_out, X_train, y_train>>
loopVars == <<epoch, idx, gen_seqs, dW, gW, updates, disc_loss, gen_loss>>
genVars == <<int_to_note, pred_notes, output_notes, midi_written>>

NoCalls == [get_notes |-> 0, prepare_sequences |-> 0, generate |-> 0, plot_loss |-> 0]

Called(stage) == [calls EXCEPT ![stage] = @ + 1]

\* the state after gan = GAN(rows=length), with the call of train pending
Init ==
    /\ length \in 1..MaxLength
    /\ seq_length = length
    /\ epochs \in 0..MaxEpochs
    /\ batch_size \in BatchSizes
    /\ sample_interval \in SampleIntervals
    /\ pc = "train"
    /\ failure = "none"
    /\ raised = {}
    /\ calls = NoCalls
    /\ notes = <<>>
    /\ n_vocab = 0
    /\ note_to_int = <<>>
    /\ windows_in = <<>>
    /\ windows_out = <<>>
    /\ X_train = <<>>
    /\ y_train = <<>>
    /\ epoch = 0
    /\ idx = <<>>
    /\ gen_seqs = [size |-> 0, gW |-> 0, dW |-> 0]
    /\ dW = 0
    /\ gW = 0
    /\ updates = <<>>
    /\ disc_loss = <<>>
    /\ gen_loss = <<>>
    /\ int_to_note = <<>>
    /\ pred_notes = <<>>
    /\ output_notes = <<>>
    /\ midi_written = FALSE
    /\ plot_written = FALSE

Fail(exc) == pc' = "failed" /\ failure' = exc

\* ------------------------------------------------------------ get_notes
\* train enters get_notes: notes = []
TrainCallGetNotes ==
    /\ pc = "train"
    /\ pc' = "get_notes"
    /\ calls' = Called("get_notes")
    /\ notes' = <<>>
    /\ UNCHANGED <<params, failure, raised, prepVars, loopVars, genVars, plot_written>>

\* mutant: converter.parse(file) moved inside the try block of get_notes
GetNotesParseCaught ==
    /\ pc = "get_notes"
    /\ "parse" \notin raised
    /\ raised' = raised \cup {"parse"}
    /\ UNCHANGED <<params, pc, failure, calls, notes, prepVars, loopVars, genVars,
                   plot_written>>

\* converter.parse(file) raises: nothing catches it
GetNotesParseRaises ==
    /\ pc = "get_notes"
    /\ raised' = raised \cup {"parse"}
    /\ Fail("ParseError")
    /\ UNCHANGED <<params, calls, notes, prepVars, loopVars, genVars, plot_written>>

\* one file of the glob is parsed; the try block either yields the elements of the
\* first instrument part, or raises and the bare except yields midi.flat.notes
GetNotesFile ==
    /\ pc = "get_notes"
    /\ \E partition_ok \in BOOLEAN, notes_to_parse \in SeqsUpTo(Elements, MaxFileElems) :
          /\ Len(notes) + Len(ParseElements(notes_to_parse)) <= MaxNotes
          /\ raised' = IF partition_ok THEN raised ELSE raised \cup {"partition"}
          /\ notes' = notes \o ParseElements(notes_to_parse)
    /\ UNCHANGED <<params, pc, failure, calls, prepVars, loopVars, genVars, plot_written>>

\* the glob is exhausted: return notes
GetNotesReturn ==
    /\ pc = "get_notes"
    /\ pc' = "prepare"
    /\ UNCHANGED <<params, failure, raised, calls, notes, prepVars, loopVars, genVars,
                   plot_written>>

\* ------------------------------------------------------ prepare_sequences
\* mutant: to_categorical given num_classes, which accepts an empty list
ToCategoricalAccepts(y) == FALSE

\* np.max of an empty array inside to_categorical raises ValueError
ToCategoricalRaises(y) == Len(y) = 0

\* n_vocab = len(set(notes)); X_train, y_train = prepare_sequences(notes, n_vocab)
TrainPrepare ==
    /\ pc = "prepare"
    /\ calls' = Called("prepare_sequences")
    /\ n_vocab' = Cardinality(Range(notes))
    /\ note_to_int' = NoteToInt(notes)
    /\ windows_in' = WindowsIn(notes, length)
    /\ windows_out' = WindowsOut(notes, length)
    /\ IF ToCategoricalRaises(windows_out')
       THEN /\ Fail("ValueError")
            /\ UNCHANGED <<X_train, y_train>>
       ELSE /\ X_train' = NormalizeAll(windows_in', n_vocab')
            /\ y_train' = ToCategorical(windows_out')
            /\ pc' = "loop"
            /\ UNCHANGED failure
    /\ UNCHANGED <<params, raised, notes, loopVars, genVars, plot_written>>

\* --------------------------------------------------------- training loop
\* mutant: the combined model compiled with the discriminator still trainable
CombinedTrainsDiscriminatorToo == TRUE

\* __init__ sets discriminator.trainable = False before it compiles the combined
\* model, so train_on_batch on the combined model updates the generator only
CombinedTrainsDiscriminator == FALSE

Update(model, data, label, size, made_at) ==
    [epoch |-> epoch, model |-> model, data |-> data, label |-> label, size |-> size,
     made_at |-> made_at, dW_before |-> dW, dW_after |-> dW', gW_before |-> gW]

\* mutant: for epoch in range(epochs - 1)
LoopExhaustedEarly == epoch + 1 >= epochs

\* for epoch in range(epochs): no iteration is left
LoopExhausted == epoch = epochs

\* for epoch in range(epochs): idx = np.random.randint(0, X_train.shape[0], batch_size);
\* real_seqs = X_train[idx]; gen_seqs = self.generator.predict(noise)
TrainSampleBatch ==
    /\ pc = "loop"
    /\ ~LoopExhausted
    /\ IF Len(X_train) = 0
       THEN /\ Fail("ValueError")
            /\ UNCHANGED <<idx, gen_seqs>>
       ELSE /\ idx' \in [1..batch_size -> 1..Len(X_train)]
            /\ gen_seqs' = [size |-> batch_size, gW |-> gW, dW |-> dW]
            /\ pc' = "d_real"
            /\ UNCHANGED failure
    /\ UNCHANGED <<params, raised, calls, notes, prepVars, epoch, dW, gW, updates,
                   disc_loss, gen_loss, genVars, plot_written>>

\* d_loss_real = self.discriminator.train_on_batch(real_seqs, real)
TrainDiscReal ==
    /\ pc = "d_real"
    /\ dW' = dW + 1
    /\ updates' = Append(updates, Update("discriminator", "real", 1, Len(idx), dW))
    /\ idx' = <<>>        \* real_seqs is not read again before it is reassigned
    /\ pc' = "d_fake"
    /\ UNCHANGED <<params, failure, raised, calls, notes, prepVars, epoch, gen_seqs,
                   gW, disc_loss, gen_loss, genVars, plot_written>>

\* d_loss_fake = self.discriminator.train_on_batch(gen_seqs, fake)
TrainDiscFake ==
    /\ pc = "d_fake"
    /\ dW' = dW + 1
    /\ updates' = Append(updates, Update("discriminator", "generated", 0, gen_seqs.size,
                                         gen_seqs.dW))
    /\ pc' = "g_train"
    /\ UNCHANGED <<params, failure, raised, calls, notes, prepVars, epoch, idx, gen_seqs,
                   gW, disc_loss, gen_loss, genVars, plot_written>>

\* noise = np.random.normal(...); g_loss = self.combined.train_on_batch(noise, real)
TrainGenerator ==
    /\ pc = "g_train"
    /\ gW' = gW + 1
    /\ dW' = IF CombinedTrainsDiscriminator THEN dW + 1 ELSE dW
    /\ updates' = Append(updates, Update("combined", "noise", 1, batch_size, dW))
    /\ pc' = "record"
    /\ UNCHANGED <<params, failure, raised, calls, notes, prepVars, epoch, idx, gen_seqs,
                   disc_loss, gen_loss, genVars, plot_written>>

\* if epoch % sample_interval == 0: append the losses; then the next iteration
TrainRecordLoss ==
    /\ pc = "record"
    /\ IF epoch % sample_interval = 0
       THEN /\ disc_loss' = Append(disc_loss, epoch)
            /\ gen_loss' = Append(gen_loss, epoch)
       ELSE UNCHANGED <<disc_loss, gen_loss>>
    /\ epoch' = epoch + 1
    /\ pc' = "loop"
    /\ UNCHANGED <<params, failure, raised, calls, notes, prepVars, idx, gen_seqs, dW, gW,
                   updates, genVars, plot_written>>

\* ------------------------------------------------------------- generate
\* the loop is exhausted: self.generate(notes), which ends in create_midi
Generate ==
    /\ pc = "loop"
    /\ LoopExhausted
    /\ calls' = Called("generate")
    /\ int_to_note' = IntToNote(notes)
    /\ \E predictions \in [1..seq_length -> GenValues] :
          LET index == [i \in 1..seq_length |-> DecodeIndex(predictions[i])]
          IN IF \E i \in 1..seq_length : index[i] \notin DOMAIN int_to_note'
             THEN /\ Fail("KeyError")
                  /\ UNCHANGED <<pred_notes, output_notes, midi_written>>
             ELSE /\ pred_notes' = [i \in 1..seq_length |-> int_to_note'[index[i]]]
                  /\ IF \E i \in 1..seq_length : ItemRaises(pred_notes'[i])
                     THEN /\ Fail("ValueError")
                          /\ UNCHANGED <<output_notes, midi_written>>
                     ELSE /\ output_notes' = CreateMidi(pred_notes')
                          /\ midi_written' = TRUE
                          /\ pc' = "plot_loss"
                          /\ UNCHANGED failure
    /\ UNCHANGED <<params, raised, notes, prepVars, loopVars, plot_written>>

\* self.plot_loss()
PlotLoss ==
    /\ pc = "plot_loss"
    /\ calls' = Called("plot_loss")
    /\ plot_written' = TRUE
    /\ pc' = "done"
    /\ UNCHANGED <<params, failure, raised, notes, prepVars, loopVars, genVars>>

Next ==
    \/ TrainCallGetNotes
    \/ GetNotesParseRaises
    \/ GetNotesFile
    \/ GetNotesReturn
    \/ TrainPrepare
    \/ TrainSampleBatch
    \/ TrainDiscReal
    \/ TrainDiscFake
    \/ TrainGenerator
    \/ TrainRecordLoss
    \/ Generate
    \/ PlotLoss

Spec == Init /\ [][Next]_vars

\* ================================================================ claims
Prepared == calls.prepare_sequences >= 1
Generated == calls.generate >= 1
Values(f) == {f[x] : x \in DOMAIN f}

\* C1: the vocabulary is closed over the corpus: the keys of note_to_int are exactly
\* the distinct tokens of notes, its values are exactly 0..n_vocab-1 in sorted token
\* order, every token of notes can be looked up, and int_to_note of generate is its
\* exact inverse.
C1_VocabularyClosed ==
    /\ Prepared =>
          /\ n_vocab = Cardinality(Range(notes))
          /\ DOMAIN note_to_int = Range(notes)
          /\ Values(note_to_int) = 0..(n_vocab - 1)
          /\ \A s \in DOMAIN note_to_int : \A t \in DOMAIN note_to_int :
                StrLess(s, t) => note_to_int[s] < note_to_int[t]
          /\ \A i \in 1..Len(notes) : notes[i] \in DOMAIN note_to_int
    /\ Generated =>
          /\ DOMAIN int_to_note = 0..(n_vocab - 1)
          /\ \A t \in DOMAIN note_to_int : int_to_note[note_to_int[t]] = t
          /\ \A k \in DOMAIN int_to_note : note_to_int[int_to_note[k]] = k

C1_Witness == Generated /\ n_vocab = 3 /\ Len(windows_in) >= 1

\* C2 (as claimed): every index generate computes is a key of int_to_note, so generate
\* never fails on the lookup and hands create_midi seq_length tokens of the vocabulary.
C2_DecodeNeverFails ==
    Generated =>
       /\ failure # "KeyError"
       /\ Len(pred_notes) = seq_length
       /\ \A i \in 1..Len(pred_notes) : pred_notes[i] \in Range(notes)

\* C3 (as claimed): the decoding of generate maps the normalized value of every encoded
\* token back to that token.
C3_DecodeInvertsEncode ==
    Prepared =>
       \A w \in 1..Len(X_train) : \A j \in 1..Len(X_train[w]) :
          LET k == DecodeIndex(X_train[w][j])
          IN /\ k \in DOMAIN IntToNote(notes)
             /\ IntToNote(notes)[k] = notes[(w - 1) + j]

C5_Normalized ==
    Prepared =>
       /\ Len(X_train) \in {0, Len(windows_in)}
       /\ \A w \in 1..Len(X_train) :
             /\ Len(X_train[w]) = Len(windows_in[w])
             /\ \A j \in 1..Len(X_train[w]) :
                   LET x == X_train[w][j]
                       k == windows_in[w][j]
                   IN /\ k \in 0..(n_vocab - 1)
                      /\ x[2] > 0
                      /\ x[1] * n_vocab = (2 * k - n_vocab) * x[2]
                      /\ RatLeq(RatOfInt(-1), x) /\ RatLeq(x, RatOfInt(1))
                      /\ (k = 0 => RatEq(x, RatOfInt(-1)))
                      /\ \A v \in 1..Len(X_train) : \A i \in 1..Len(X_train[v]) :
                            windows_in[v][i] < k => RatLess(X_train[v][i], x)

C5_Witness ==
    /\ Len(X_train) >= 1
    /\ \E w \in 1..Len(X_train) : \E j \in 1..Len(X_train[w]) : windows_in[w][j] = 2
    /\ \E w \in 1..Len(X_train) : \E j \in 1..Len(X_train[w]) : windows_in[w][j] = 0

InLoop == pc \in {"loop", "d_real", "d_fake", "g_train", "record"}

\* C6: train is a linear pipeline: get_notes, prepare_sequences, the training loop,
\* generate and plot_loss each happen at most once and in that order; no MIDI file is
\* written before the last epoch has completed; the plot is written only after the
\* MIDI file, so a run whose decoding fails writes no plot.
C6_LinearPipeline ==
    /\ \A stage \in DOMAIN calls : calls[stage] <= 1
    /\ Prepared => (calls.get_notes = 1 /\ pc \notin {"train", "get_notes", "prepare"})
    /\ InLoop => (Prepared /\ failure = "none")
    /\ updates # <<>> => Prepared
    /\ Generated => (Prepared /\ ~InLoop /\ epoch = epochs /\ Len(updates) = 3 * epochs)
    /\ midi_written => Generated
    /\ calls.plot_loss = 1 => (Generated /\ midi_written /\ pc = "done")
    /\ plot_written => (calls.plot_loss = 1 /\ midi_written)
    /\ (Generated /\ ~midi_written) => (pc = "failed" /\ ~plot_written)

C6_Witness == pc = "done" /\ plot_written /\ epochs = 2

\* C7 (as claimed): if converter.parse or the instrument partitioning step raises for
\* any file, get_notes returns no token list and no epoch, MIDI output or plot occurs.
C7_AnyParsingFailureFatal ==
    raised # {} =>
       /\ pc = "failed"
       /\ failure = "ParseError"
       /\ ~Prepared
       /\ updates = <<>>
       /\ ~midi_written
       /\ ~plot_written

\* C7 (amended): if converter.parse raises for any file, get_notes returns no token
\* list, the exception ends train and no epoch, MIDI output or plot occurs; a raise of
\* the instrument partitioning step is caught and does not end the run by itself.
C7_ParseFailureFatal ==
    /\ "parse" \in raised =>
          /\ pc = "failed"
          /\ failure = "ParseError"
          /\ ~Prepared
          /\ updates = <<>>
          /\ ~midi_written
          /\ ~plot_written
    /\ ("partition" \in raised /\ "parse" \notin raised /\ ~Prepared) =>
          (pc \in {"get_notes", "prepare"} /\ failure = "none")

C7_Witness == "parse" \in raised /\ "partition" \in raised /\ Len(notes) >= 1

\* what is left of the training loop: five positions for each iteration not yet ended,
\* less the positions of the current iteration already passed
LoopPosition ==
    IF pc = "d_real" THEN 1
    ELSE IF pc = "d_fake" THEN 2
    ELSE IF pc = "g_train" THEN 3
    ELSE IF pc = "record" THEN 4
    ELSE 0

LoopRemaining == 5 * (epochs - epoch) - LoopPosition

C8_Updates ==
    /\ Len(updates) <= 3 * epochs
    /\ epoch <= epochs
    /\ pc = "loop" => Len(updates) = 3 * epoch
    /\ Generated => (epoch = epochs /\ Len(updates) = 3 * epochs)
    /\ \A i \in 1..Len(updates) :
          LET u == updates[i]
              step == (i - 1) % 3
          IN /\ u.epoch = (i - 1) \div 3
             /\ step = 0 => /\ u.model = "discriminator" /\ u.data = "real"
                            /\ u.label = 1 /\ u.size = batch_size
                            /\ u.dW_after = u.dW_before + 1
             /\ step = 1 => /\ u.model = "discriminator" /\ u.data = "generated"
                            /\ u.label = 0 /\ u.size = batch_size
                            /\ u.made_at = updates[i - 1].dW_before
                            /\ u.dW_before = updates[i - 1].dW_after
                            /\ u.dW_after = u.dW_before + 1
             /\ step = 2 => /\ u.model = "combined" /\ u.data = "noise"
                            /\ u.label = 1 /\ u.size = batch_size
                            /\ u.dW_before = updates[i - 1].dW_after
                            /\ u.dW_after = u.dW_before
                            /\ u.gW_before = u.epoch
    /\ dW = Cardinality({i \in 1..Len(updates) : updates[i].model = "discriminator"})
    /\ gW = Cardinality({i \in 1..Len(updates) : updates[i].model = "combined"})
    /\ InLoop => (LoopRemaining >= 0 /\ ENABLED Next)

ClaimedElement(token) ==
    IF Contains(token, ".") \/ IsDigit(token)
    THEN [kind |-> "Chord", pitch |-> <<>>,
          notes |-> [i \in 1..Len(Split(token, ".")) |-> IntOfStr(Split(token, ".")[i])]]
    ELSE [kind |-> "Note", pitch |-> token, notes |-> <<>>]

C9_TokenToElement ==
    midi_written =>
       /\ Len(output_notes) = Len(pred_notes)
       /\ \A i \in 1..Len(output_notes) :
             LET e == output_notes[i]
             IN [kind |-> e.kind, pitch |-> e.pitch, notes |-> e.notes]
                   = ClaimedElement(pred_notes[i])

\* C10: when the corpus yields at most length tokens, prepare_sequences builds zero
\* windows and train ends with an unhandled exception before the first epoch: no
\* update is made, the loss lists stay empty, no MIDI file and no plot are written.
C10_ShortCorpusFatal ==
    (Prepared /\ Len(notes) <= length) =>
       /\ Len(windows_in) = 0
       /\ pc = "failed"
       /\ failure = "ValueError"
       /\ updates = <<>>
       /\ dW = 0 /\ gW = 0 /\ epoch = 0
       /\ disc_loss = <<>> /\ gen_loss = <<>>
       /\ ~midi_written
       /\ ~plot_written

C10_Witness == Prepared /\ Len(notes) = length /\ epochs >= 1 /\ pc = "failed"

====
